---- MODULE Spec2Model ----
(***************************************************************************)
(* Model of the hosts engine of mritd/etcdhosts-client: the Hostname       *)
(* factory, the line parser (ParseLine), the HostList container (Add,      *)
(* Remove, Enable/Disable, Less/Sort, Format, Apply) and the HostFile      *)
(* document (NewHostFile, Parse).                                          *)
(*                                                                         *)
(* A Go string is a sequence of one-character strings, a net.IP is a       *)
(* sequence of 16 byte values (nil is the empty sequence), a Hostname is a *)
(* record [Domain, IP, Enabled, IPv6] and a HostList is a sequence of      *)
(* Hostnames.                                                              *)
(***************************************************************************)
EXTENDS Integers, Sequences, FiniteSets, TLC

VARIABLES
    hosts,   \* the HostList (of the caller, or HostFile.Hosts)
    op,      \* the last operation that ran
    err,     \* the kind of error it returned ("nil" when none)
    ret,     \* the number it returned (Remove, RemoveDomain, RemoveDomainV)
    out,     \* the bytes it returned (FormatLinux, FormatWindows)
    line,    \* the argument of the last ParseLine
    parsed,  \* the HostList the last ParseLine returned
    data,    \* HostFile.data, the raw bytes handed to NewHostFile
    file,    \* "none" before NewHostFile, then "ok" (a *HostFile) or "nil"
    errs,    \* the []error HostFile.Parse returned
    entryA,  \* h[A], the first Hostname handed to Less
    entryB,  \* h[B], the second Hostname handed to Less
    less,    \* what Less returned ("none" before the call)
    kvs,     \* the store: what each revision 1..Len(kvs) holds under hostKey
    vl       \* the VHostsList GetHostsHistory returned

vars == <<hosts, op, err, ret, out, line, parsed, data, file, errs,
          entryA, entryB, less, kvs, vl>>

----------------------------------------------------------------------------
(* Characters and bytes *)

Digits == <<"0", "1", "2", "3", "4", "5", "6", "7", "8", "9">>

Lower ==
    <<"a", "b", "c", "d", "e", "f", "g", "h", "i", "j", "k", "l", "m",
      "n", "o", "p", "q", "r", "s", "t", "u", "v", "w", "x", "y", "z">>

HexDigits == Digits \o <<"a", "b", "c", "d", "e", "f">>

Occurs(c, s) == \E i \in 1..Len(s) : s[i] = c

Pos(c, s) == CHOOSE i \in 1..Len(s) : s[i] = c

\* the value of a decimal or hexadecimal digit
DigitValue == [c \in {HexDigits[i] : i \in 1..16} |-> Pos(c, HexDigits) - 1]

IsDigit(c) == c \in DOMAIN DigitValue /\ DigitValue[c] < 10

IsHexDigit(c) == c \in DOMAIN DigitValue

\* the byte values of the digits and the lower-case letters
AlnumByte ==
    [c \in {Digits[i] : i \in 1..10} \cup {Lower[i] : i \in 1..26} |->
        IF Occurs(c, Digits) THEN 47 + Pos(c, Digits) ELSE 96 + Pos(c, Lower)]

\* the byte value of a character (Go compares strings byte by byte)
ByteOf(c) ==
    IF c \in DOMAIN AlnumByte THEN AlnumByte[c]
    ELSE CASE c = "\t" -> 9
           [] c = "\n" -> 10
           [] c = " " -> 32
           [] c = "#" -> 35
           [] c = "%" -> 37
           [] c = "." -> 46
           [] c = ":" -> 58
           [] c = "<" -> 60
           [] c = ">" -> 62
           [] c = "?" -> 63
           [] OTHER -> 255

IsSpace(c) == c \in {" ", "\t", "\n", "\r"}

----------------------------------------------------------------------------
(* Evaluation order *)

\* F at the value of e: e is computed once, as an assignment does in the
\* code, and F reads the value
Bind(e, F(_)) == CHOOSE r \in {F(v) : v \in {e}} : TRUE

----------------------------------------------------------------------------
(* package strings *)

Drop(s, n) == SubSeq(s, n + 1, Len(s))

Take(s, n) == SubSeq(s, 1, n)

\* strings.TrimSpace: from the first to the last character that is no space
TrimSpace(s) ==
    IF \A i \in 1..Len(s) : IsSpace(s[i]) THEN <<>>
    ELSE SubSeq(s,
                CHOOSE i \in 1..Len(s) :
                    ~IsSpace(s[i]) /\ \A j \in 1..(i - 1) : IsSpace(s[j]),
                CHOOSE i \in 1..Len(s) :
                    ~IsSpace(s[i]) /\ \A j \in (i + 1)..Len(s) : IsSpace(s[j]))

\* strings.Split(s, sep) for a one-character sep: always at least one field;
\* i is the position read, start the position the current field began at
RECURSIVE SplitFrom(_, _, _, _)
SplitFrom(s, sep, i, start) ==
    IF i > Len(s) THEN <<SubSeq(s, start, Len(s))>>
    ELSE IF s[i] = sep
    THEN <<SubSeq(s, start, i - 1)>> \o SplitFrom(s, sep, i + 1, i + 1)
    ELSE SplitFrom(s, sep, i + 1, start)

Split(s, sep) == SplitFrom(s, sep, 1, 1)

\* strings.Join(words, sep)
RECURSIVE JoinFrom(_, _, _)
JoinFrom(words, sep, i) ==
    IF i > Len(words) THEN <<>>
    ELSE IF i = Len(words) THEN words[i]
    ELSE words[i] \o sep \o JoinFrom(words, sep, i + 1)

Join(words, sep) == JoinFrom(words, sep, 1)

\* strings.Replace(s, "\t", " ", -1)
RECURSIVE ReplaceTabsFrom(_, _)
ReplaceTabsFrom(s, i) ==
    IF i > Len(s) THEN <<>>
    ELSE <<IF s[i] = "\t" THEN " " ELSE s[i]>> \o ReplaceTabsFrom(s, i + 1)

\* Faulty variant of the replacement: the tabs are kept
KeepTabs(s) == s

\* strings.Replace(s, "\t", " ", -1)
ReplaceTabs(s) == ReplaceTabsFrom(s, 1)

\* strings.Contains(s, "  ")
ContainsDoubleSpace(s) ==
    \E i \in 1..(Len(s) - 1) : s[i] = " " /\ s[i + 1] = " "

\* strings.Replace(s, "  ", " ", -1): non-overlapping, left to right
RECURSIVE ReplaceDoubleSpaceFrom(_, _)
ReplaceDoubleSpaceFrom(s, i) ==
    IF i > Len(s) THEN <<>>
    ELSE IF i < Len(s) /\ s[i] = " " /\ s[i + 1] = " "
    THEN <<" ">> \o ReplaceDoubleSpaceFrom(s, i + 2)
    ELSE <<s[i]>> \o ReplaceDoubleSpaceFrom(s, i + 1)

ReplaceDoubleSpace(s) == ReplaceDoubleSpaceFrom(s, 1)

\* for strings.Contains(line, "  ") { line = strings.Replace(line, "  ", " ", -1) }
RECURSIVE CollapseSpaces(_)
CollapseSpaces(s) ==
    IF ContainsDoubleSpace(s)
    THEN Bind(ReplaceDoubleSpace(s), LAMBDA t : CollapseSpaces(t))
    ELSE s

----------------------------------------------------------------------------
(* package net: IP, ParseIP, IP.String, IP.To4, IP.Equal *)

IPv4len == 4

IPv6len == 16

Nil == <<>>

Zeros(n) == [i \in 1..n |-> 0]

v4InV6Prefix == Zeros(10) \o <<255, 255>>

\* net.IPv4(a, b, c, d): the 16-byte form
IPv4(a, b, c, d) == v4InV6Prefix \o <<a, b, c, d>>

\* IP.To4: the 4-byte form of an IPv4 address, nil for anything else
To4(ip) ==
    IF Len(ip) = IPv4len THEN ip
    ELSE IF Len(ip) = IPv6len /\ Take(ip, 12) = v4InV6Prefix THEN Drop(ip, 12)
    ELSE Nil

\* IP.Equal: an IPv4 address and its 16-byte form are equal
IPEqual(x, y) ==
    IF Len(x) = Len(y) THEN x = y
    ELSE IF Len(x) = IPv4len /\ Len(y) = IPv6len THEN To4(y) = x
    ELSE IF Len(x) = IPv6len /\ Len(y) = IPv4len THEN To4(x) = y
    ELSE FALSE

\* the largest number dtoi and xtoi read
Big == 16777215

\* dtoi: the decimal number of s from position i on: [n, c, ok], c the
\* number of characters read
RECURSIVE DtoiFrom(_, _, _, _)
DtoiFrom(s, i, n, c) ==
    IF i + c <= Len(s) /\ IsDigit(s[i + c]) /\ n < Big
    THEN DtoiFrom(s, i, n * 10 + DigitValue[s[i + c]], c + 1)
    ELSE [n |-> n, c |-> c, ok |-> c > 0 /\ n < Big]

Dtoi(s, i) == DtoiFrom(s, i, 0, 0)

\* xtoi: the hexadecimal number of s from position i on
RECURSIVE XtoiFrom(_, _, _, _)
XtoiFrom(s, i, n, c) ==
    IF i + c <= Len(s) /\ IsHexDigit(s[i + c]) /\ n < Big
    THEN XtoiFrom(s, i, n * 16 + DigitValue[s[i + c]], c + 1)
    ELSE [n |-> n, c |-> c, ok |-> c > 0 /\ n < Big]

Xtoi(s, i) == XtoiFrom(s, i, 0, 0)

\* parseIPv4 on s from position i on, p the bytes read so far: four decimal
\* fields of at most 255 separated by dots (the go 1.15 of go.mod keeps a
\* field with leading zeros)
RECURSIVE ParseIPv4From(_, _, _)
ParseIPv4From(s, i, p) ==
    IF Len(p) = IPv4len
    THEN (IF i > Len(s) THEN IPv4(p[1], p[2], p[3], p[4]) ELSE Nil)
    ELSE IF i > Len(s) THEN Nil
    ELSE IF Len(p) > 0 /\ s[i] # "." THEN Nil
    ELSE Bind(IF Len(p) > 0 THEN i + 1 ELSE i, LAMBDA k :
         Bind(Dtoi(s, k), LAMBDA d :
             IF ~d.ok \/ d.n > 255 THEN Nil
             ELSE Bind(Append(p, d.n), LAMBDA q : ParseIPv4From(s, k + d.c, q))))

ParseIPv4(s) == ParseIPv4From(s, 1, <<>>)

\* the loop of parseIPv6 on s from position i on, ip the bytes read so far:
\* [i, ip, ellipsis, ok]
RECURSIVE ParseIPv6Loop(_, _, _, _)
ParseIPv6Loop(s, i, ip, ellipsis) ==
    IF Len(ip) >= IPv6len THEN [i |-> i, ip |-> ip, ellipsis |-> ellipsis, ok |-> TRUE]
    ELSE
    Bind(Xtoi(s, i), LAMBDA x :
        IF ~x.ok \/ x.n > 65535
        THEN [i |-> i, ip |-> ip, ellipsis |-> ellipsis, ok |-> FALSE]
        ELSE IF i + x.c <= Len(s) /\ s[i + x.c] = "."
        THEN \* a trailing IPv4 address
             IF (ellipsis < 0 /\ Len(ip) # IPv6len - IPv4len)
                \/ Len(ip) + IPv4len > IPv6len
             THEN [i |-> i, ip |-> ip, ellipsis |-> ellipsis, ok |-> FALSE]
             ELSE Bind(ParseIPv4From(s, i, <<>>), LAMBDA ip4 :
                      IF ip4 = Nil
                      THEN [i |-> i, ip |-> ip, ellipsis |-> ellipsis, ok |-> FALSE]
                      ELSE [i |-> Len(s) + 1, ip |-> ip \o Drop(ip4, 12),
                            ellipsis |-> ellipsis, ok |-> TRUE])
        ELSE
        Bind(ip \o <<x.n \div 256, x.n % 256>>, LAMBDA ip2 :
        Bind(i + x.c, LAMBDA j :
            IF j > Len(s)
            THEN [i |-> j, ip |-> ip2, ellipsis |-> ellipsis, ok |-> TRUE]
            ELSE IF s[j] # ":" \/ j = Len(s)
            THEN [i |-> j, ip |-> ip2, ellipsis |-> ellipsis, ok |-> FALSE]
            ELSE IF s[j + 1] = ":"
            THEN IF ellipsis >= 0
                 THEN [i |-> j + 1, ip |-> ip2, ellipsis |-> ellipsis, ok |-> FALSE]
                 ELSE IF j + 1 = Len(s)
                 THEN [i |-> j + 2, ip |-> ip2, ellipsis |-> Len(ip2), ok |-> TRUE]
                 ELSE ParseIPv6Loop(s, j + 2, ip2, Len(ip2))
            ELSE ParseIPv6Loop(s, j + 1, ip2, ellipsis))))

\* parseIPv6: hexadecimal groups, one "::" standing for a run of zero groups
ParseIPv6(s) ==
    IF Len(s) >= 2 /\ s[1] = ":" /\ s[2] = ":" /\ Len(s) = 2 THEN Zeros(IPv6len)
    ELSE Bind(IF Len(s) >= 2 /\ s[1] = ":" /\ s[2] = ":"
              THEN ParseIPv6Loop(s, 3, <<>>, 0)
              ELSE ParseIPv6Loop(s, 1, <<>>, -1),
              LAMBDA r :
                  IF ~r.ok \/ r.i <= Len(s) THEN Nil
                  ELSE IF Len(r.ip) < IPv6len
                  THEN IF r.ellipsis < 0 THEN Nil
                       ELSE Take(r.ip, r.ellipsis)
                            \o Zeros(IPv6len - Len(r.ip))
                            \o Drop(r.ip, r.ellipsis)
                  ELSE IF r.ellipsis >= 0 THEN Nil
                  ELSE r.ip)

\* net.ParseIP: the first '.' or ':' of s decides the syntax
RECURSIVE ParseIPFrom(_, _)
ParseIPFrom(s, i) ==
    IF i > Len(s) THEN Nil
    ELSE IF s[i] = "." THEN ParseIPv4(s)
    ELSE IF s[i] = ":" THEN ParseIPv6(s)
    ELSE ParseIPFrom(s, i + 1)

ParseIP(s) == ParseIPFrom(s, 1)

\* the decimal digits of a byte
RECURSIVE Decimal(_)
Decimal(n) ==
    IF n < 10 THEN <<Digits[n + 1]>>
    ELSE Append(Decimal(n \div 10), Digits[(n % 10) + 1])

\* appendHex: the hexadecimal digits of a group, no leading zeros
RECURSIVE Hex(_)
Hex(n) ==
    IF n < 16 THEN <<HexDigits[n + 1]>>
    ELSE Append(Hex(n \div 16), HexDigits[(n % 16) + 1])

\* the 16-bit group at byte offset i
Group(ip, i) == ip[i + 1] * 256 + ip[i + 2]

\* the end (exclusive, a byte offset) of the run of zero groups from j on
RECURSIVE ZeroRunEnd(_, _)
ZeroRunEnd(ip, j) ==
    IF j < IPv6len /\ ip[j + 1] = 0 /\ ip[j + 2] = 0 THEN ZeroRunEnd(ip, j + 2) ELSE j

\* the longest run of zero groups, the leftmost of the longest: [e0, e1]
RECURSIVE LongestZeroRun(_, _, _, _)
LongestZeroRun(ip, i, e0, e1) ==
    IF i >= IPv6len THEN [e0 |-> e0, e1 |-> e1]
    ELSE Bind(ZeroRunEnd(ip, i), LAMBDA j :
             IF j > i /\ j - i > e1 - e0
             THEN LongestZeroRun(ip, j + 2, i, j)
             ELSE LongestZeroRun(ip, i + 2, e0, e1))

RECURSIVE FormatIPv6From(_, _, _, _)
FormatIPv6From(ip, i, e0, e1) ==
    IF i >= IPv6len THEN <<>>
    ELSE IF i = e0
    THEN <<":", ":">> \o
         (IF e1 >= IPv6len THEN <<>>
          ELSE Hex(Group(ip, e1)) \o FormatIPv6From(ip, e1 + 2, e0, e1))
    ELSE (IF i > 0 THEN <<":">> ELSE <<>>)
         \o Hex(Group(ip, i)) \o FormatIPv6From(ip, i + 2, e0, e1)

\* IP.String: "<nil>", dotted decimal for IPv4, else RFC 5952 text
IPString(ip) ==
    IF Len(ip) = 0 THEN <<"<", "n", "i", "l", ">">>
    ELSE IF To4(ip) # Nil
    THEN Bind(To4(ip), LAMBDA p :
             Decimal(p[1]) \o <<".">> \o Decimal(p[2]) \o <<".">>
             \o Decimal(p[3]) \o <<".">> \o Decimal(p[4]))
    ELSE IF Len(ip) # IPv6len THEN <<"?">>
    ELSE Bind(LongestZeroRun(ip, 0, -1, -1), LAMBDA r :
             \* "::" never stands for a single zero group
             IF r.e1 - r.e0 <= 2 THEN FormatIPv6From(ip, 0, -1, -1)
             ELSE FormatIPv6From(ip, 0, r.e0, r.e1))

----------------------------------------------------------------------------
(* Hostname: the record and its factory *)

Localhost == <<"l", "o", "c", "a", "l", "h", "o", "s", "t">>

\* classify(token): strict dotted quad first, then an IPv6 literal
LooksLikeIPv4(ip) == ParseIPv4(ip) # Nil

LooksLikeIPv6(ip) == Occurs(":", ip) /\ ParseIPv6(ip) # Nil

\* NewHostname(domain, ip, enabled): [ok, h]; ok = FALSE is the ParseError
NewHostname(domain, ip, enabled) ==
    IF domain = <<>> THEN [ok |-> FALSE, h |-> Nil]
    ELSE Bind(ParseIP(ip), LAMBDA IP :
         Bind(LooksLikeIPv6(ip), LAMBDA is6 :
             IF ~LooksLikeIPv4(ip) /\ ~is6 THEN [ok |-> FALSE, h |-> Nil]
             ELSE [ok |-> TRUE,
                   h  |-> [Domain |-> domain, IP |-> IP, Enabled |-> enabled,
                           IPv6 |-> is6]]))

\* Hostname.Equal: the enabled flag is not part of the identity
Equal(a, b) == a.Domain = b.Domain /\ IPEqual(a.IP, b.IP) /\ a.IPv6 = b.IPv6

\* Hostname.Format: "<address> <domain>", "# " in front when disabled
HostnameFormat(a) ==
    (IF a.Enabled THEN <<>> ELSE <<"#", " ">>) \o IPString(a.IP) \o <<" ">> \o a.Domain

----------------------------------------------------------------------------
(* HostList: ordering *)

\* MakeSurrogateIP: an address whose text starts with "127" sorts as the
\* address whose text has "0" in place of that "127"
MakeSurrogateIP(IP) ==
    Bind(IPString(IP), LAMBDA s :
        IF Len(s) > 3 /\ Take(s, 3) = <<"1", "2", "7">>
        THEN ParseIP(<<"0">> \o Drop(s, 3))
        ELSE IP)

\* the loop over the surrogate bytes: "lt", "gt", or "eq" to fall through
RECURSIVE CompareSurrogates(_, _, _)
CompareSurrogates(x, y, charIndex) ==
    IF charIndex > Len(x) THEN "eq"
    ELSE IF x[charIndex] < y[charIndex] THEN "lt"
    ELSE IF x[charIndex] > y[charIndex] THEN "gt"
    ELSE CompareSurrogates(x, y, charIndex + 1)

\* the loop over the domain bytes
RECURSIVE CompareDomains(_, _, _)
CompareDomains(x, y, charIndex) ==
    IF charIndex > Len(x) /\ charIndex > Len(y) THEN FALSE
    ELSE IF charIndex > Len(x) THEN TRUE
    ELSE IF charIndex > Len(y) THEN FALSE
    ELSE IF ByteOf(x[charIndex]) < ByteOf(y[charIndex]) THEN TRUE
    ELSE IF ByteOf(x[charIndex]) > ByteOf(y[charIndex]) THEN FALSE
    ELSE CompareDomains(x, y, charIndex + 1)

\* Less on two Hostnames
LessHostname(a, b) ==
    IF ~a.IPv6 /\ b.IPv6 THEN TRUE
    ELSE IF a.IPv6 /\ ~b.IPv6 THEN FALSE
    ELSE IF a.Domain = Localhost THEN TRUE
    ELSE IF b.Domain = Localhost THEN FALSE
    ELSE Bind(MakeSurrogateIP(a.IP), LAMBDA surrogateA :
         Bind(MakeSurrogateIP(b.IP), LAMBDA surrogateB :
         Bind(IF IPEqual(surrogateA, surrogateB) THEN "eq"
              ELSE CompareSurrogates(surrogateA, surrogateB, 1), LAMBDA c :
             IF c = "lt" THEN TRUE
             ELSE IF c = "gt" THEN FALSE
             ELSE CompareDomains(a.Domain, b.Domain, 1))))

\* HostList.Less(A, B), positions counted from 1
Less(h, A, B) == LessHostname(h[A], h[B])

\* HostList.Swap
Swap(h, i, j) == [h EXCEPT ![i] = h[j], ![j] = h[i]]

\* sort.Sort on fewer than seven elements is insertionSort:
\*   for i := a+1; i < b; i++ { for j := i; j > a && Less(j, j-1); j-- { Swap(j, j-1) } }
RECURSIVE SiftBack(_, _)
SiftBack(h, j) ==
    IF j > 1 /\ Less(h, j, j - 1)
    THEN Bind(Swap(h, j, j - 1), LAMBDA g : SiftBack(g, j - 1))
    ELSE h

RECURSIVE InsertionSort(_, _)
InsertionSort(h, i) ==
    IF i > Len(h) THEN h
    ELSE Bind(SiftBack(h, i), LAMBDA g : InsertionSort(g, i + 1))

\* Faulty variant of Sort: the list is left as it is
Unsorted(h) == h

\* HostList.Sort
Sort(h) == InsertionSort(h, 2)

----------------------------------------------------------------------------
(* HostList: lookup and mutation *)

\* Faulty variants of the loop of Add, which the properties of Add must
\* tell from the loop itself.
\* - no conflict branch: a second address of a family is appended
RECURSIVE AddScanAppend(_, _, _)
AddScanAppend(h, newHostname, index) ==
    IF index > Len(h) THEN [hosts |-> Append(h, newHostname), err |-> "nil"]
    ELSE IF Equal(h[index], newHostname)
    THEN [hosts |-> [h EXCEPT ![index].Enabled =
                         h[index].Enabled \/ newHostname.Enabled],
          err   |-> "duplicate"]
    ELSE AddScanAppend(h, newHostname, index + 1)

\* - a duplicate overwrites the flag instead of merging it
RECURSIVE AddScanOverwrite(_, _, _)
AddScanOverwrite(h, newHostname, index) ==
    IF index > Len(h) THEN [hosts |-> Append(h, newHostname), err |-> "nil"]
    ELSE IF Equal(h[index], newHostname)
    THEN [hosts |-> [h EXCEPT ![index].Enabled = newHostname.Enabled],
          err   |-> "duplicate"]
    ELSE IF h[index].Domain = newHostname.Domain
            /\ h[index].IPv6 = newHostname.IPv6
    THEN [hosts |-> [h EXCEPT ![index] = newHostname], err |-> "conflict"]
    ELSE AddScanOverwrite(h, newHostname, index + 1)

\* - a conflict keeps the entry that was there first
RECURSIVE AddScanKeepFirst(_, _, _)
AddScanKeepFirst(h, newHostname, index) ==
    IF index > Len(h) THEN [hosts |-> Append(h, newHostname), err |-> "nil"]
    ELSE IF Equal(h[index], newHostname)
    THEN [hosts |-> [h EXCEPT ![index].Enabled =
                         h[index].Enabled \/ newHostname.Enabled],
          err   |-> "duplicate"]
    ELSE IF h[index].Domain = newHostname.Domain
            /\ h[index].IPv6 = newHostname.IPv6
    THEN [hosts |-> h, err |-> "conflict"]
    ELSE AddScanKeepFirst(h, newHostname, index + 1)

\* - a conflict is found on the domain alone, whatever the family
RECURSIVE AddScanAnyFamily(_, _, _)
AddScanAnyFamily(h, newHostname, index) ==
    IF index > Len(h) THEN [hosts |-> Append(h, newHostname), err |-> "nil"]
    ELSE IF Equal(h[index], newHostname)
    THEN [hosts |-> [h EXCEPT ![index].Enabled =
                         h[index].Enabled \/ newHostname.Enabled],
          err   |-> "duplicate"]
    ELSE IF h[index].Domain = newHostname.Domain
    THEN [hosts |-> [h EXCEPT ![index] = newHostname], err |-> "conflict"]
    ELSE AddScanAnyFamily(h, newHostname, index + 1)

\* the loop of Add from position index on
RECURSIVE AddScan(_, _, _)
AddScan(h, newHostname, index) ==
    IF index > Len(h) THEN [hosts |-> Append(h, newHostname), err |-> "nil"]
    ELSE IF Equal(h[index], newHostname)
    THEN [hosts |-> [h EXCEPT ![index].Enabled =
                         h[index].Enabled \/ newHostname.Enabled],
          err   |-> "duplicate"]
    ELSE IF h[index].Domain = newHostname.Domain
            /\ h[index].IPv6 = newHostname.IPv6
    THEN [hosts |-> [h EXCEPT ![index] = newHostname], err |-> "conflict"]
    ELSE AddScan(h, newHostname, index + 1)

\* HostList.Add: [hosts, err]
Add(h, input) ==
    Bind(NewHostname(input.Domain, IPString(input.IP), input.Enabled), LAMBDA n :
        IF ~n.ok THEN [hosts |-> h, err |-> "parse"]
        ELSE AddScan(h, n.h, 1))

\* the first of the positions S a range loop visits, 0 when there is none
FirstIndex(S) ==
    IF S = {} THEN 0 ELSE CHOOSE i \in S : \A j \in S : i <= j

\* the positions of the entries of a domain, and of a domain and version
DomainPositions(h, domain) == {i \in 1..Len(h) : h[i].Domain = domain}

DomainVPositions(h, domain, version) ==
    {i \in 1..Len(h) : h[i].Domain = domain /\ h[i].IPv6 = (version = 6)}

\* HostList.IndexOfDomainV, for version 4 or 6: a position from 0, or -1
IndexOfDomainV(h, domain, version) ==
    FirstIndex(DomainVPositions(h, domain, version)) - 1

\* HostList.Remove(index), index counted from 0: [hosts, ret]
Remove(h, index) ==
    IF index > -1 /\ index < Len(h)
    THEN [hosts |-> Take(h, index) \o Drop(h, index + 1), ret |-> 1]
    ELSE [hosts |-> h, ret |-> 0]

\* HostList.RemoveDomainV
RemoveDomainV(h, domain, version) ==
    Bind(IndexOfDomainV(h, domain, version), LAMBDA index : Remove(h, index))

\* HostList.RemoveDomain
RemoveDomain(h, domain) ==
    Bind(RemoveDomainV(h, domain, 4), LAMBDA r4 :
    Bind(RemoveDomainV(r4.hosts, domain, 6), LAMBDA r6 :
        [hosts |-> r6.hosts, ret |-> r4.ret + r6.ret]))

\* the flag of the entry at position i (none when i = 0) becomes flag
SetEnabledAt(h, i, flag) ==
    IF i = 0 THEN [hosts |-> h, err |-> "notfound"]
    ELSE [hosts |-> [h EXCEPT ![i].Enabled = flag], err |-> "nil"]

\* Faulty variant of Enable: every entry of the domain is enabled, in both
\* families
EnableEvery(h, name) ==
    IF DomainPositions(h, name) = {} THEN [hosts |-> h, err |-> "notfound"]
    ELSE [hosts |-> [i \in 1..Len(h) |->
                        IF h[i].Domain = name THEN [h[i] EXCEPT !.Enabled = TRUE]
                        ELSE h[i]],
          err   |-> "nil"]

\* HostList.Enable
Enable(h, name) ==
    Bind(FirstIndex(DomainPositions(h, name)), LAMBDA i :
        SetEnabledAt(h, i, TRUE))

\* HostList.Disable
Disable(h, name) ==
    Bind(FirstIndex(DomainPositions(h, name)), LAMBDA i :
        SetEnabledAt(h, i, FALSE))

\* HostList.EnableV
EnableV(h, domain, version) ==
    IF version # 4 /\ version # 6 THEN [hosts |-> h, err |-> "invalidversion"]
    ELSE Bind(FirstIndex(DomainVPositions(h, domain, version)),
              LAMBDA i : SetEnabledAt(h, i, TRUE))

\* HostList.DisableV
DisableV(h, domain, version) ==
    IF version # 4 /\ version # 6 THEN [hosts |-> h, err |-> "invalidversion"]
    ELSE Bind(FirstIndex(DomainVPositions(h, domain, version)),
              LAMBDA i : SetEnabledAt(h, i, FALSE))

----------------------------------------------------------------------------
(* HostList: formatting *)

\* HostList.FilterByIP
FilterByIP(h, IP) == SelectSeq(h, LAMBDA e : IPEqual(e.IP, IP))

\* the loop of GetUniqueIPs over a sorted list: the addresses in first-seen
\* order, seen the texts of those taken
RECURSIVE UniqueIPsFrom(_, _, _, _)
UniqueIPsFrom(h, i, seen, inOrder) ==
    IF i > Len(h) THEN inOrder
    ELSE Bind(IPString(h[i].IP), LAMBDA key :
             IF key \in seen THEN UniqueIPsFrom(h, i + 1, seen, inOrder)
             ELSE Bind(Append(inOrder, h[i].IP), LAMBDA more :
                      UniqueIPsFrom(h, i + 1, seen \cup {key}, more)))

\* HostList.GetUniqueIPs: sorts the list, [hosts, ips]
GetUniqueIPs(h) ==
    Bind(Sort(h), LAMBDA s : [hosts |-> s, ips |-> UniqueIPsFrom(s, 1, {}, <<>>)])

\* the domains of a list of Hostnames
RECURSIVE DomainsFrom(_, _)
DomainsFrom(entries, i) ==
    IF i > Len(entries) THEN <<>>
    ELSE <<entries[i].Domain>> \o DomainsFrom(entries, i + 1)

\* the lines FormatLinux writes for one address
LinuxLines(h, IP) ==
    Bind(FilterByIP(h, IP), LAMBDA matching :
    Bind(DomainsFrom(SelectSeq(matching, LAMBDA e : e.Enabled), 1), LAMBDA enabledIPs :
    Bind(DomainsFrom(SelectSeq(matching, LAMBDA e : ~e.Enabled), 1), LAMBDA disabledIPs :
    Bind(IPString(IP), LAMBDA text :
        (IF Len(enabledIPs) > 0
         THEN text \o <<" ">> \o Join(enabledIPs, <<" ">>) \o <<"\n">>
         ELSE <<>>)
        \o
        (IF Len(disabledIPs) > 0
         THEN <<"#", " ">> \o text \o <<" ">> \o Join(disabledIPs, <<" ">>) \o <<"\n">>
         ELSE <<>>)))))

RECURSIVE LinuxOut(_, _, _)
LinuxOut(h, ips, i) ==
    IF i > Len(ips) THEN <<>>
    ELSE LinuxLines(h, ips[i]) \o LinuxOut(h, ips, i + 1)

\* HostList.FormatLinux: sorts the list, [hosts, out]
FormatLinux(h) ==
    Bind(Sort(h), LAMBDA s :
    Bind(GetUniqueIPs(s), LAMBDA u :
        [hosts |-> u.hosts, out |-> LinuxOut(u.hosts, u.ips, 1)]))

RECURSIVE WindowsOut(_, _)
WindowsOut(h, i) ==
    IF i > Len(h) THEN <<>>
    ELSE HostnameFormat(h[i]) \o <<"\n">> \o WindowsOut(h, i + 1)

\* HostList.FormatWindows: sorts the list it shares with the caller
FormatWindows(h) ==
    Bind(Sort(h), LAMBDA s : [hosts |-> s, out |-> WindowsOut(s, 1)])

----------------------------------------------------------------------------
(* ParseLine, HostFile.Parse, NewHostFile, HostList.Apply *)

\* Faulty variants of the loop of ParseLine.
\* - the disable marker is lost: every entry is enabled
RECURSIVE ParseDomainsEnabled(_, _, _, _, _)
ParseDomainsEnabled(domains, ip, enabled, i, hostnames) ==
    IF i > Len(domains) THEN [hosts |-> hostnames, err |-> "nil"]
    ELSE Bind(NewHostname(domains[i], ip, TRUE), LAMBDA n :
             IF ~n.ok THEN [hosts |-> <<>>, err |-> "parse"]
             ELSE Bind(Append(hostnames, n.h), LAMBDA more :
                      ParseDomainsEnabled(domains, ip, enabled, i + 1, more)))

\* - a word that fails is skipped without an error
RECURSIVE ParseDomainsSkip(_, _, _, _, _)
ParseDomainsSkip(domains, ip, enabled, i, hostnames) ==
    IF i > Len(domains) THEN [hosts |-> hostnames, err |-> "nil"]
    ELSE Bind(NewHostname(domains[i], ip, enabled), LAMBDA n :
             IF ~n.ok THEN ParseDomainsSkip(domains, ip, enabled, i + 1, hostnames)
             ELSE Bind(Append(hostnames, n.h), LAMBDA more :
                      ParseDomainsSkip(domains, ip, enabled, i + 1, more)))

\* the loop of ParseLine over the domain words: one failure drops them all
RECURSIVE ParseDomains(_, _, _, _, _)
ParseDomains(domains, ip, enabled, i, hostnames) ==
    IF i > Len(domains) THEN [hosts |-> hostnames, err |-> "nil"]
    ELSE Bind(NewHostname(domains[i], ip, enabled), LAMBDA n :
             IF ~n.ok THEN [hosts |-> <<>>, err |-> "parse"]
             ELSE Bind(Append(hostnames, n.h), LAMBDA more :
                      ParseDomains(domains, ip, enabled, i + 1, more)))

\* the words of a line: strings.TrimSpace on each field of strings.Split
RECURSIVE WordsFrom(_, _)
WordsFrom(fields, i) ==
    IF i > Len(fields) THEN <<>>
    ELSE <<TrimSpace(fields[i])>> \o WordsFrom(fields, i + 1)

\* the words ParseLine breaks a non-empty line into: the disable marker and
\* the comment are cut off, the whitespace is normalised
LineWords(l, enabled) ==
    Bind(IF enabled THEN l ELSE Bind(Drop(l, 1), LAMBDA t : TrimSpace(t)), LAMBDA l1 :
    Bind(Split(l1, "#")[1], LAMBDA l2 :
    Bind(ReplaceTabs(l2), LAMBDA l3 :
    Bind(CollapseSpaces(l3), LAMBDA l4 :
    Bind(TrimSpace(l4), LAMBDA l5 :
    Bind(Split(l5, " "), LAMBDA fields :
        WordsFrom(fields, 1)))))))

\* ParseLine(line): [hosts, err]
ParseLine(l) ==
    IF Len(l) = 0 THEN [hosts |-> <<>>, err |-> "blank"]
    ELSE Bind(l[1] # "#", LAMBDA enabled :
         Bind(LineWords(l, enabled), LAMBDA words :
         Bind(Drop(words, 1), LAMBDA domains :
             ParseDomains(domains, words[1], enabled, 1, <<>>))))

\* the inner loop of Parse: Add every Hostname of one line, keep the errors
RECURSIVE AddAll(_, _, _, _)
AddAll(h, hostnames, i, es) ==
    IF i > Len(hostnames) THEN [hosts |-> h, errs |-> es]
    ELSE Bind(Add(h, hostnames[i]), LAMBDA r :
         Bind(IF r.err # "nil" THEN Append(es, r.err) ELSE es, LAMBDA es2 :
             AddAll(r.hosts, hostnames, i + 1, es2)))

\* the outer loop of Parse: the error of ParseLine is dropped
RECURSIVE ParseFrom(_, _, _, _)
ParseFrom(h, lines, i, es) ==
    IF i > Len(lines) THEN [hosts |-> h, errs |-> es]
    ELSE Bind(ParseLine(lines[i]).hosts, LAMBDA hostnames :
         Bind(AddAll(h, hostnames, 1, es), LAMBDA r :
             ParseFrom(r.hosts, lines, i + 1, r.errs)))

\* HostFile.Parse on an empty Hosts: [hosts, errs]
Parse(d) ==
    Bind(Split(d, "\n"), LAMBDA lines : ParseFrom(<<>>, lines, 1, <<>>))

\* NewHostFile(data): [file, hosts, errs]; file = "nil" when Parse
\* returned any error, else the Hosts are sorted
NewHostFile(d) ==
    Bind(Parse(d), LAMBDA p :
        IF p.errs # <<>> THEN [file |-> "nil", hosts |-> <<>>, errs |-> p.errs]
        ELSE [file |-> "ok", hosts |-> Sort(p.hosts), errs |-> <<>>])

\* json.Unmarshal into a HostList: js is the sequence of the objects
\* [domain, ip, enabled] of the document; net.IP reads its text with ParseIP
\* and an empty text as nil, the IPv6 field is not read
RECURSIVE UnmarshalFrom(_, _, _)
UnmarshalFrom(js, i, hostnames) ==
    IF i > Len(js) THEN [ok |-> TRUE, hostnames |-> hostnames]
    ELSE Bind(ParseIP(js[i].ip), LAMBDA IP :
             IF js[i].ip # <<>> /\ IP = Nil THEN [ok |-> FALSE, hostnames |-> <<>>]
             ELSE Bind(Append(hostnames,
                              [Domain |-> js[i].domain, IP |-> IP,
                               Enabled |-> js[i].enabled, IPv6 |-> FALSE]),
                       LAMBDA more : UnmarshalFrom(js, i + 1, more)))

Unmarshal(js) == UnmarshalFrom(js, 1, <<>>)

\* HostList.Apply: the errors of Add are dropped
Apply(h, js) ==
    Bind(Unmarshal(js), LAMBDA u :
        IF ~u.ok THEN [hosts |-> h, err |-> "json"]
        ELSE [hosts |-> AddAll(h, u.hostnames, 1, <<>>).hosts, err |-> "nil"])

----------------------------------------------------------------------------
(* Bounds and inputs *)

\* the longest HostList the model builds
MaxLen == 3

\* the most lines of a document handed to NewHostFile
MaxLines == 2

DomainA == <<"a">>

DomainB == <<"b">>

Loopback == IPv4(127, 0, 0, 1)

Private == IPv4(10, 0, 0, 1)

Unspecified == IPv4(0, 0, 0, 0)

Loopback6 == Zeros(15) \o <<1>>

\* a Hostname as a caller writes it: Hostname{Domain, IP, Enabled}
Literal(domain, ip, enabled) ==
    [Domain |-> domain, IP |-> ip, Enabled |-> enabled, IPv6 |-> FALSE]

Literals(domains, ips, flags) ==
    {Literal(d, ip, e) : d \in domains, ip \in ips, e \in flags}

\* the arguments of Add under Spec: two domains with two IPv4 addresses, one
\* of them with an IPv6 address too, an empty domain and a nil address
AddInputs ==
    Literals({DomainA, DomainB}, {Private, Loopback}, BOOLEAN)
    \cup Literals({DomainA}, {Loopback6}, BOOLEAN)
    \cup {Literal(<<>>, Private, TRUE), Literal(DomainA, Nil, TRUE)}

\* the arguments of Add under SpecSort
SortInputs ==
    Literals({Localhost, DomainA, DomainB},
             {Loopback, Private, Unspecified, Loopback6}, {TRUE})

\* the arguments of Add under SpecRoundTrip
RoundTripInputs ==
    Literals({Localhost, DomainA}, {Loopback, Private, Loopback6}, BOOLEAN)

DomainInputs == {DomainA, DomainB, Localhost}

VersionInputs == {4, 6, 5}

Object(domain, ip, enabled) == [domain |-> domain, ip |-> ip, enabled |-> enabled]

\* the JSON documents handed to Apply
ApplyInputs ==
    LET a4  == Object(DomainA, IPString(Private), TRUE)
        a4x == Object(DomainA, IPString(Loopback), FALSE)
        b6  == Object(DomainA, IPString(Loopback6), FALSE)
        bad == Object(DomainB, <<"x">>, TRUE)
        nul == Object(DomainB, <<>>, TRUE)
    IN  {<<>>, <<a4>>, <<a4, a4x>>, <<b6, a4>>, <<a4, bad>>, <<nul, b6>>}

----------------------------------------------------------------------------
(* The state machine of a HostList *)

Init ==
    /\ hosts = <<>>
    /\ op = "init"
    /\ err = "nil"
    /\ ret = 0
    /\ out = <<>>
    /\ line = <<>>
    /\ parsed = <<>>
    /\ data = <<>>
    /\ file = "none"
    /\ errs = <<>>
    /\ entryA = Nil
    /\ entryB = Nil
    /\ less = "none"
    /\ kvs = <<>>
    /\ vl = <<>>

fileVars == <<line, parsed, data, file, errs>>

lessVars == <<entryA, entryB, less>>

storeVars == <<kvs, vl>>

\* the state after a call that returned (h, e, n, o)
Returned(name, h, e, n, o) ==
    /\ hosts' = h
    /\ op' = name
    /\ err' = e
    /\ ret' = n
    /\ out' = o
    /\ UNCHANGED <<fileVars, lessVars, storeVars>>

CallAdd(inputs) ==
    \E input \in inputs :
        \E r \in {Add(hosts, input)} :
            /\ Len(r.hosts) <= MaxLen
            /\ Returned("Add", r.hosts, r.err, 0, <<>>)

CallRemove ==
    \E index \in -1..MaxLen :
        \E r \in {Remove(hosts, index)} :
            Returned("Remove", r.hosts, "nil", r.ret, <<>>)

CallRemoveDomain ==
    \E domain \in DomainInputs :
        \E r \in {RemoveDomain(hosts, domain)} :
            Returned("RemoveDomain", r.hosts, "nil", r.ret, <<>>)

\* IndexOfDomainV panics on a version that is neither 4 nor 6
CallRemoveDomainV ==
    \E domain \in DomainInputs, version \in VersionInputs :
        IF version # 4 /\ version # 6
        THEN Returned("RemoveDomainV", hosts, "panic", 0, <<>>)
        ELSE \E r \in {RemoveDomainV(hosts, domain, version)} :
                 Returned("RemoveDomainV", r.hosts, "nil", r.ret, <<>>)

CallEnable ==
    \E name \in DomainInputs :
        \E r \in {Enable(hosts, name)} :
            Returned("Enable", r.hosts, r.err, 0, <<>>)

CallDisable ==
    \E name \in DomainInputs :
        \E r \in {Disable(hosts, name)} :
            Returned("Disable", r.hosts, r.err, 0, <<>>)

CallEnableV ==
    \E domain \in DomainInputs, version \in VersionInputs :
        \E r \in {EnableV(hosts, domain, version)} :
            Returned("EnableV", r.hosts, r.err, 0, <<>>)

CallDisableV ==
    \E domain \in DomainInputs, version \in VersionInputs :
        \E r \in {DisableV(hosts, domain, version)} :
            Returned("DisableV", r.hosts, r.err, 0, <<>>)

CallSort == Returned("Sort", Sort(hosts), "nil", 0, <<>>)

CallApply ==
    \E js \in ApplyInputs :
        \E r \in {Apply(hosts, js)} :
            /\ Len(r.hosts) <= MaxLen
            /\ Returned("Apply", r.hosts, r.err, 0, <<>>)

CallGetUniqueIPs ==
    \E r \in {GetUniqueIPs(hosts)} :
        Returned("GetUniqueIPs", r.hosts, "nil", Len(r.ips), <<>>)

CallFormatLinux ==
    \E r \in {FormatLinux(hosts)} :
        Returned("FormatLinux", r.hosts, "nil", 0, r.out)

CallFormatWindows ==
    \E r \in {FormatWindows(hosts)} :
        Returned("FormatWindows", r.hosts, "nil", 0, r.out)

Next ==
    \/ CallAdd(AddInputs)
    \/ CallRemove
    \/ CallRemoveDomain
    \/ CallRemoveDomainV
    \/ CallEnable
    \/ CallDisable
    \/ CallEnableV
    \/ CallDisableV
    \/ CallSort
    \/ CallApply

Spec == Init /\ [][Next]_vars

\* building a list with Add, then sorting and formatting it
NextSort ==
    \/ CallAdd(SortInputs)
    \/ CallSort
    \/ CallGetUniqueIPs
    \/ CallFormatLinux
    \/ CallFormatWindows

SpecSort == Init /\ [][NextSort]_vars

----------------------------------------------------------------------------
(* The state machine of a HostFile *)

Host1 == <<"h", "o", "s", "t", "1">>

Host2 == <<"h", "o", "s", "t", "2">>

\* a line of a hosts file in its parts: what stands before the address, the
\* first word, the separator, the domain words and what follows them
LineParts ==
    [lead    : {<<>>, <<"#">>, <<"#", " ">>, <<" ", " ", "#", " ">>, <<" ">>},
     first   : {IPString(Private), IPString(Loopback6), <<"h", "o", "s", "t">>},
     sep     : {<<" ">>, <<"\t", "\t">>},
     domains : {<<>>, <<DomainA>>, <<Host1, Host2>>},
     trail   : {<<>>, <<" ", "#", " ", "t", "r", "a", "i", "l", "i", "n", "g",
                  " ", "c", "o", "m", "m", "e", "n", "t">>}]

\* the text of a line: the domain words are three spaces apart
Render(p) ==
    p.lead \o p.first
    \o (IF p.domains = <<>> THEN <<>>
        ELSE p.sep \o Join(p.domains, <<" ", " ", " ">>))
    \o p.trail

\* the arguments of ParseLine: every rendered line, and the blank line
LineInputs == {Render(p) : p \in LineParts} \cup {<<>>}

\* the lines the documents are made of
FileLines ==
    {IPString(Private) \o <<" ">> \o DomainA,
     IPString(Loopback) \o <<" ">> \o DomainA,
     IPString(Private) \o <<" ">> \o DomainB \o <<" ">> \o DomainA,
     <<"#", " ">> \o IPString(Loopback6) \o <<" ">> \o DomainB,
     <<"h", "o", "s", "t", " ">> \o DomainB,
     <<"#", " ", "n", "o", "t", "e">>,
     <<>>}

\* the sequences of 1..n elements of S
RECURSIVE SeqsUpTo(_, _)
SeqsUpTo(S, n) ==
    IF n = 0 THEN {<<>>}
    ELSE LET shorter == SeqsUpTo(S, n - 1)
         IN  shorter \cup {Append(q, x) : q \in shorter, x \in S}

\* the arguments of NewHostFile: up to MaxLines lines joined by newlines
FileInputs == {Join(ls, <<"\n">>) : ls \in SeqsUpTo(FileLines, MaxLines) \ {<<>>}}

CallParseLine ==
    \E l \in LineInputs :
        \E r \in {ParseLine(l)} :
            /\ op = "init"
            /\ line' = l
            /\ parsed' = r.hosts
            /\ op' = "ParseLine"
            /\ err' = r.err
            /\ UNCHANGED <<hosts, ret, out, data, file, errs, lessVars, storeVars>>

CallNewHostFile(inputs) ==
    \E d \in inputs :
        \E r \in {NewHostFile(d)} :
            /\ data' = d
            /\ file' = r.file
            /\ hosts' = r.hosts
            /\ errs' = r.errs
            /\ op' = "NewHostFile"
            /\ err' = IF r.file = "nil" THEN "create" ELSE "nil"
            /\ ret' = 0
            /\ out' = <<>>
            /\ UNCHANGED <<line, parsed, lessVars, storeVars>>

\* HostFile.Format(goos): "windows" is FormatWindows, anything else FormatLinux
CallFormat ==
    /\ file = "ok"
    /\ \E goos \in {"windows", "unix", "other"} :
           IF goos = "windows" THEN CallFormatWindows ELSE CallFormatLinux

\* ParseLine on one line
NextLine == CallParseLine

SpecLine == Init /\ [][NextLine]_vars

\* a document read with NewHostFile, then written with Format
NextFile ==
    \/ file = "none" /\ CallNewHostFile(FileInputs)
    \/ CallFormat

SpecFile == Init /\ [][NextFile]_vars

\* a list built with Add, formatted, read back as a document, formatted again
NextRoundTrip ==
    \/ file = "none" /\ CallAdd(RoundTripInputs)
    \/ CallFormatLinux
    \/ file = "none" /\ op = "FormatLinux" /\ CallNewHostFile({out})

SpecRoundTrip == Init /\ [][NextRoundTrip]_vars

----------------------------------------------------------------------------
(* The comparator on a pair of Hostnames *)

DomainAB == <<"a", "b">>

\* the Hostnames handed to Less: four domains at four addresses, as
\* NewHostname makes them
LessInputs ==
    {NewHostname(domain, IPString(ip), TRUE).h :
         domain \in {Localhost, DomainA, DomainAB, DomainB},
         ip \in {Loopback, Private, Unspecified, Loopback6}}

\* a list of two Hostnames, the same one twice included
InitLess ==
    /\ entryA \in LessInputs
    /\ entryB \in LessInputs
    /\ less = "none"
    /\ hosts = <<>>
    /\ op = "init"
    /\ err = "nil"
    /\ ret = 0
    /\ out = <<>>
    /\ line = <<>>
    /\ parsed = <<>>
    /\ data = <<>>
    /\ file = "none"
    /\ errs = <<>>
    /\ kvs = <<>>
    /\ vl = <<>>

\* HostList.Less(A, B) on the list of entryA and entryB
CallLess ==
    /\ op = "init"
    /\ less' = Less(<<entryA, entryB>>, 1, 2)
    /\ op' = "Less"
    /\ UNCHANGED <<hosts, err, ret, out, fileVars, entryA, entryB, storeVars>>

NextLess == CallLess

SpecLess == InitLess /\ [][NextLess]_vars

----------------------------------------------------------------------------
(* HostsClient: the history of the hosts key *)

\* the most revisions the store goes through
MaxRev == 4

\* what a revision holds under hostKey when the key is not there: a Get at
\* that revision answers with no error and an empty Kvs
NoKv == [Version |-> 0, Value |-> ""]

\* the texts PutHosts stores
HostsInputs == {"x", "y"}

\* VHostsList.Less
VLess(v, i, j) == v[i].Version > v[j].Version

\* VHostsList.Swap
VSwap(v, i, j) == [v EXCEPT ![i] = v[j], ![j] = v[i]]

\* sort.Sort on fewer than seven elements is insertionSort
RECURSIVE VSiftBack(_, _)
VSiftBack(v, j) ==
    IF j > 1 /\ VLess(v, j, j - 1)
    THEN Bind(VSwap(v, j, j - 1), LAMBDA w : VSiftBack(w, j - 1))
    ELSE v

RECURSIVE VInsertionSort(_, _)
VInsertionSort(v, i) ==
    IF i > Len(v) THEN v
    ELSE Bind(VSiftBack(v, i), LAMBDA w : VInsertionSort(w, i + 1))

VSort(v) == VInsertionSort(v, 2)

\* the loop of GetHostsHistory from revision i down: the reads at the
\* revisions up to failAt return an error; resp.Kvs[0] on an empty Kvs is an
\* index out of range, which panics
RECURSIVE WalkRevisions(_, _, _, _)
WalkRevisions(store, i, failAt, list) ==
    IF i <= 0 \/ i <= failAt THEN [vl |-> VSort(list), err |-> "nil"]
    ELSE IF store[i].Version = 0 THEN [vl |-> <<>>, err |-> "panic"]
    ELSE Bind(Append(list, [Version  |-> store[i].Version,
                            Revision |-> i,
                            Hosts    |-> store[i].Value]),
              LAMBDA more : WalkRevisions(store, i - 1, failAt, more))

\* HostsClient.GetHostsHistory: [vl, err]; getFails is the first Get
\* returning an error
GetHostsHistory(store, getFails, failAt) ==
    IF getFails THEN [vl |-> <<>>, err |-> "get"]
    ELSE IF store[Len(store)].Version < 1 THEN [vl |-> <<>>, err |-> "notfound"]
    ELSE WalkRevisions(store, Len(store), failAt, <<>>)

\* a new store is at revision 1 and holds no key
InitStore ==
    /\ kvs = <<NoKv>>
    /\ vl = <<>>
    /\ hosts = <<>>
    /\ op = "init"
    /\ err = "nil"
    /\ ret = 0
    /\ out = <<>>
    /\ line = <<>>
    /\ parsed = <<>>
    /\ data = <<>>
    /\ file = "none"
    /\ errs = <<>>
    /\ entryA = Nil
    /\ entryB = Nil
    /\ less = "none"

\* the state after a write that takes the store to a new revision
Written(name, kv) ==
    /\ Len(kvs) < MaxRev
    /\ kvs' = Append(kvs, kv)
    /\ op' = name
    /\ err' = "nil"
    /\ UNCHANGED <<hosts, ret, out, fileVars, lessVars, vl>>

\* HostsClient.PutHosts: the key's version counts its writes since creation
CallPutHosts ==
    \E text \in HostsInputs :
        Written("PutHosts", [Version |-> kvs[Len(kvs)].Version + 1, Value |-> text])

\* another client writes another key: a new revision, hostKey as it was
WriteOtherKey == Written("WriteOtherKey", kvs[Len(kvs)])

\* another client deletes hostKey
DeleteKey ==
    /\ kvs[Len(kvs)].Version > 0
    /\ Written("DeleteKey", NoKv)

CallGetHostsHistory ==
    \E getFails \in BOOLEAN, failAt \in 0..Len(kvs) :
        \E r \in {GetHostsHistory(kvs, getFails, failAt)} :
            /\ vl' = r.vl
            /\ err' = r.err
            /\ op' = "GetHostsHistory"
            /\ UNCHANGED <<hosts, ret, out, fileVars, lessVars, kvs>>

NextStore ==
    \/ CallPutHosts
    \/ WriteOtherKey
    \/ DeleteKey
    \/ CallGetHostsHistory

SpecStore == InitStore /\ [][NextStore]_vars

----------------------------------------------------------------------------
(* Properties of the HostList under Spec *)

\* C1: whatever calls were made on a list that started empty, and whatever
\* errors they returned, no two entries of the list have the same domain and
\* the same family.
C1_Uniqueness ==
    \A i, j \in 1..Len(hosts) :
        (hosts[i].Domain = hosts[j].Domain /\ hosts[i].IPv6 = hosts[j].IPv6)
            => i = j

\* a full list on which an Add has just reported a conflict, and which holds
\* one domain in both families
C1_Witness ==
    /\ op = "Add"
    /\ err = "conflict"
    /\ Len(hosts) = 3
    /\ \E i, j \in 1..Len(hosts) :
           hosts[i].Domain = hosts[j].Domain /\ hosts[i].IPv6 # hosts[j].IPv6

\* C2: an Add whose candidate equals an entry of the list (domain, address,
\* family) returns the duplicate error and still merges: the length and
\* every other entry are as before, the entry's flag is its old flag OR the
\* candidate's.
C2_DuplicateMerge ==
    \A input \in AddInputs :
        \A n \in {NewHostname(input.Domain, IPString(input.IP), input.Enabled)} :
            \A i \in 1..Len(hosts) :
                (n.ok /\ Equal(hosts[i], n.h)) =>
                    \A r \in {Add(hosts, input)} :
                        /\ r.err = "duplicate"
                        /\ Len(r.hosts) = Len(hosts)
                        /\ \A j \in 1..Len(hosts) : j # i => r.hosts[j] = hosts[j]
                        /\ r.hosts[i] =
                               [hosts[i] EXCEPT !.Enabled = hosts[i].Enabled \/ input.Enabled]

\* an Add has just reported a duplicate on a list of one entry, which is
\* enabled
C2_Witness ==
    /\ op = "Add"
    /\ err = "duplicate"
    /\ Len(hosts) = 1
    /\ hosts[1].Enabled

\* C3: an Add whose candidate has the domain and family of an entry but
\* another address returns the conflict error and puts the candidate (its
\* address, its flag) in that entry's place: the length and every other
\* entry are as before.
C3_ConflictReplace ==
    \A input \in AddInputs :
        \A n \in {NewHostname(input.Domain, IPString(input.IP), input.Enabled)} :
            \A i \in 1..Len(hosts) :
                (/\ n.ok
                 /\ hosts[i].Domain = n.h.Domain
                 /\ hosts[i].IPv6 = n.h.IPv6
                 /\ ~IPEqual(hosts[i].IP, n.h.IP)) =>
                    \A r \in {Add(hosts, input)} :
                        /\ r.err = "conflict"
                        /\ Len(r.hosts) = Len(hosts)
                        /\ \A j \in 1..Len(hosts) : j # i => r.hosts[j] = hosts[j]
                        /\ r.hosts[i] = n.h
                        /\ IPEqual(r.hosts[i].IP, input.IP)
                        /\ r.hosts[i].Enabled = input.Enabled

\* an Add has just reported a conflict and the list holds one entry, at the
\* loopback address
C3_Witness ==
    /\ op = "Add"
    /\ err = "conflict"
    /\ Len(hosts) = 1
    /\ IPEqual(hosts[1].IP, Loopback)

\* C4: an Add whose candidate is valid and whose domain and family no entry
\* has appends the candidate as the last entry and returns no error, with
\* every entry that was there unchanged, also when the domain is there in
\* the other family.
C4_FamilyIsolation ==
    \A input \in AddInputs :
        \A n \in {NewHostname(input.Domain, IPString(input.IP), input.Enabled)} :
            (/\ n.ok
             /\ \A i \in 1..Len(hosts) :
                    ~(hosts[i].Domain = n.h.Domain /\ hosts[i].IPv6 = n.h.IPv6)) =>
                \A r \in {Add(hosts, input)} :
                    /\ r.err = "nil"
                    /\ r.hosts = Append(hosts, n.h)

\* an Add has just appended, without an error, an IPv6 entry of a domain
\* that has an IPv4 entry
C4_Witness ==
    /\ op = "Add"
    /\ err = "nil"
    /\ Len(hosts) > 1
    /\ hosts[Len(hosts)].IPv6
    /\ \E i \in 1..(Len(hosts) - 1) :
           hosts[i].Domain = hosts[Len(hosts)].Domain /\ ~hosts[i].IPv6

----------------------------------------------------------------------------
(* Properties of the round trip under SpecRoundTrip *)

\* C5: the Unix-style text of a list built with Add makes a HostFile, and
\* the Unix-style text of that HostFile is the same text byte for byte.
C5_RoundTrip ==
    /\ op = "NewHostFile" => file = "ok" /\ errs = <<>>
    /\ (file = "ok" /\ op = "FormatLinux") => out = data

\* the text of three entries, enabled and disabled, has been read and
\* written again
C5_Witness ==
    /\ file = "ok"
    /\ op = "FormatLinux"
    /\ Len(hosts) = 3
    /\ \E i, j \in 1..Len(hosts) : hosts[i].Enabled /\ ~hosts[j].Enabled

----------------------------------------------------------------------------
(* Properties of ParseLine under SpecLine *)

\* the line "# 10.0.0.1\t\thost1   host2 # trailing comment"
MarkedLine ==
    <<"#", " ">> \o IPString(Private) \o <<"\t", "\t">> \o Host1
    \o <<" ", " ", " ">> \o Host2
    \o <<" ", "#", " ", "t", "r", "a", "i", "l", "i", "n", "g",
         " ", "c", "o", "m", "m", "e", "n", "t">>

\* the same line behind two spaces
IndentedLine == <<" ", " ">> \o MarkedLine

\* host1 and host2, disabled, at 10.0.0.1
TwoDisabled ==
    <<[Domain |-> Host1, IP |-> Private, Enabled |-> FALSE, IPv6 |-> FALSE],
      [Domain |-> Host2, IP |-> Private, Enabled |-> FALSE, IPv6 |-> FALSE]>>

\* C6 (as stated): ParseLine on the line whose marker stands behind two
\* spaces returns host1 and host2, disabled, at 10.0.0.1.
C6_Original ==
    (op = "ParseLine" /\ line = IndentedLine) => parsed = TwoDisabled

\* C6 (amended): ParseLine on the line whose marker stands behind two
\* spaces returns no entry and no error: the line is enabled and a comment
\* from the "#" on. Only with the marker as its first character is the line
\* disabled, and its words are then 10.0.0.1, host1 and host2.
C6_DisableMarker ==
    op = "ParseLine" =>
        /\ line = IndentedLine =>
               /\ line[1] # "#"
               /\ LineWords(line, TRUE) = <<<<>>>>
               /\ parsed = <<>>
               /\ err = "nil"
        /\ line = MarkedLine =>
               /\ line[1] = "#"
               /\ LineWords(line, FALSE) = <<IPString(Private), Host1, Host2>>

\* ParseLine has been applied to the line whose marker stands behind two
\* spaces
C6_Witness == op = "ParseLine" /\ line = IndentedLine /\ parsed = <<>>

\* C7 (as stated): ParseLine on a non-empty line whose first word is no
\* IPv4 or IPv6 literal returns a ParseError and no entry, however many
\* domain words follow, none included.
C7_Original ==
    (/\ op = "ParseLine"
     /\ line # <<>>
     /\ \A words \in {LineWords(line, line[1] # "#")} :
            ~LooksLikeIPv4(words[1]) /\ ~LooksLikeIPv6(words[1])) =>
        parsed = <<>> /\ err = "parse"

\* C7 (amended): ParseLine on a non-empty line whose first word is no IPv4
\* or IPv6 literal returns no entry; it returns a ParseError when at least
\* one domain word follows, and no error when none does.
C7_InvalidFirstWord ==
    (op = "ParseLine" /\ line # <<>>) =>
        \A words \in {LineWords(line, line[1] # "#")} :
            (~LooksLikeIPv4(words[1]) /\ ~LooksLikeIPv6(words[1])) =>
                /\ parsed = <<>>
                /\ err = IF Len(words) > 1 THEN "parse" ELSE "nil"

\* ParseLine has been applied to a line of the one word "host", and to no
\* error
C7_Witness ==
    op = "ParseLine" /\ line = <<"h", "o", "s", "t">> /\ err = "nil"

----------------------------------------------------------------------------
(* Properties of the HostFile under SpecFile *)

\* C8: NewHostFile on a document yields a HostFile whatever its lines are,
\* and the Hosts of that HostFile have an entry for the domain and family of
\* every entry a line of the document parses to.
C8_BadLineTolerated ==
    op = "NewHostFile" =>
        /\ file = "ok"
        /\ \A lines \in {Split(data, "\n")} :
               \A k \in 1..Len(lines) :
                   \A entries \in {ParseLine(lines[k]).hosts} :
                       \A e \in 1..Len(entries) :
                           \E i \in 1..Len(hosts) :
                               /\ hosts[i].Domain = entries[e].Domain
                               /\ hosts[i].IPv6 = entries[e].IPv6

----------------------------------------------------------------------------
(* Properties of the order under SpecSort *)

C10_LoopbackFirst ==
    \A i, j \in 1..Len(hosts) :
        (/\ hosts[i].IPv6 = hosts[j].IPv6
         /\ hosts[i].Domain # Localhost
         /\ hosts[j].Domain # Localhost
         /\ To4(hosts[i].IP) # Nil /\ To4(hosts[i].IP)[1] = 127
         /\ ~(To4(hosts[j].IP) # Nil /\ To4(hosts[j].IP)[1] = 127)) =>
            LessHostname(hosts[i], hosts[j])

----------------------------------------------------------------------------
(* Properties of the comparator under SpecLess *)

\* C11: Less(A, B) is the lexicographic comparison on the family (IPv4
\* first), on "localhost" before any other domain when exactly one of the two
\* domains is "localhost", on the bytes of the surrogate addresses, and on
\* the bytes of the domains; so it is FALSE on two equal entries.
C11_ComparatorOrder ==
    op = "Less" =>
        less =
            IF entryA.IPv6 # entryB.IPv6 THEN ~entryA.IPv6
            ELSE IF (entryA.Domain = Localhost) # (entryB.Domain = Localhost)
            THEN entryA.Domain = Localhost
            ELSE \E c \in {CompareSurrogates(MakeSurrogateIP(entryA.IP),
                                             MakeSurrogateIP(entryB.IP), 1)} :
                     \/ c = "lt"
                     \/ c = "eq" /\ CompareDomains(entryA.Domain, entryB.Domain, 1)

----------------------------------------------------------------------------
(* Properties of GetHostsHistory under SpecStore *)

\* C13: when hostKey is there at the current revision and the first Get
\* succeeds, GetHostsHistory returns without a fault a list whose every
\* record is what a revision holds under hostKey, in non-increasing order
\* of Version, also when a revision holds nothing under hostKey.
C13_NeverFaults ==
    (op = "GetHostsHistory" /\ err # "get" /\ kvs[Len(kvs)].Version > 0) =>
        /\ err = "nil"
        /\ \A k \in 1..Len(vl) :
               /\ vl[k].Revision \in 1..Len(kvs)
               /\ kvs[vl[k].Revision].Version > 0
               /\ vl[k].Version = kvs[vl[k].Revision].Version
               /\ vl[k].Hosts = kvs[vl[k].Revision].Value
        /\ \A k \in 1..(Len(vl) - 1) : vl[k].Version >= vl[k + 1].Version

====
